---- MODULE Spec2Model ----
(***************************************************************************)
(* Model of src/src/managed_data/api.py: the high-level functions of the   *)
(* managed-data client (get_tree, get_dataframe, _parse_column_value,      *)
(* _type_and_cleanup_dataframe, download, download_database, get_row_data, *)
(* merge_databases).                                                       *)
(*                                                                         *)
(* Encoding of Python values.                                              *)
(*   - object ids, human ids, option values, file ids: positive integers;  *)
(*     None (a missing parentId) is Null = 0.                              *)
(*   - column ids, column names and dictionary keys: strings.              *)
(*   - a Python value held in a cell: a record [tag, items]; tag "None"    *)
(*     is None/NaN, tag "str" a scalar, tags "selectedOptions", "fileIds"  *)
(*     and "rowIds" the raw structured (dict) value of a field.            *)
(***************************************************************************)
EXTENDS Integers, Sequences, FiniteSets, TLC

VARIABLES
    store,      \* the records the service holds, in the order it lists them
    isdir,      \* os.path.isdir(destination)
    returned    \* the last call: the operation, its arguments and its outcome

vars == <<store, isdir, returned>>

Null == 0

\* ------------------------------------------------------------------ bounds
MaxObjects == 3
MaxRows == 2
MaxFields == 2
MaxItems == 2
MaxNodes == 2

\* ------------------------------------------------------------ small helpers
Range(s) == {s[i] : i \in 1..Len(s)}

\* the sequences over S of length at most n
SeqsUpTo(S, n) == UNION {[1..k -> S] : k \in 0..n}

\* No operation has been called yet.
NotCalled == [op |-> "", status |-> "none"]

\* ------------------------------------------------------------ record store
\* One object of the service, as list_rows / describe_row return it.
\* validationStatus 1 stands for "valid".
Record(i, p, t, cols, fields) ==
    [id |-> i, parentId |-> p, type |-> t, hid |-> 100 + i,
     validationStatus |-> 1, cols |-> cols, fields |-> fields,
     hidPrefix |-> "DB"]

\* A database whose human ids start with hidPrefix.
DatabaseRecord(i, p, cols, hidPrefix) ==
    [Record(i, p, "database", cols, <<>>) EXCEPT !.hidPrefix = hidPrefix]

\* An object as list_rows returns it (no columns, no fields).
Object(i, p, t) == Record(i, p, t, <<>>, <<>>)

RowType == {"row", "database", "workspace"}

\* list_rows(row_type=...): the objects of that type ("" lists everything)
list_rows(row_type) ==
    SelectSeq(store, LAMBDA o : row_type = "" \/ o.type = row_type)

\* ----------------------------------------------------------------- get_tree
\* node["children"] = [obj for obj in objects if obj["parentId"] == node["id"]]
\* Objects are Python dicts shared between the lists, so a node is named by
\* its id and `children` maps the id of every object that has a "children"
\* key to the ids of its children.
_add_children(node, objects, children) ==
    (node :> [k \in 1..Len(SelectSeq(objects, LAMBDA o : o.parentId = node)) |->
                SelectSeq(objects, LAMBDA o : o.parentId = node)[k].id])
    @@ children

\* for node in nodes: _add_children(node, objects)
RECURSIVE AddChildrenEach(_, _, _)
AddChildrenEach(nodes, objects, children) ==
    IF nodes = <<>> THEN children
    ELSE AddChildrenEach(Tail(nodes), objects,
                         _add_children(Head(nodes).id, objects, children))

\* if len(root_object) != 1: raise DeepOriginException(...)
no_unique_root_none_only(root_object) == Len(root_object) = 0

no_unique_root(root_object) == Len(root_object) # 1

\* the candidates of a workspace's children: workspaces + databases
workspace_candidates_databases_first(workspaces, databases) == databases \o workspaces

workspace_candidates(workspaces, databases) == workspaces \o databases

get_tree(include_rows) ==
    LET objects == IF include_rows THEN list_rows("")
                   ELSE list_rows("workspace") \o list_rows("database")
        rows == IF include_rows THEN SelectSeq(objects, LAMBDA o : o.type = "row") ELSE <<>>
        workspaces == SelectSeq(objects, LAMBDA o : o.type = "workspace")
        databases == SelectSeq(objects, LAMBDA o : o.type = "database")
        \* for obj in workspaces + databases: obj["children"] = []
        init == [i \in {o.id : o \in Range(workspaces \o databases)} |-> <<>>]
        root_object == SelectSeq(objects, LAMBDA o : o.parentId = Null)
    IN  IF no_unique_root(root_object)
        THEN [op |-> "get_tree", status |-> "error",
              include_rows |-> include_rows, root |-> Null, children |-> <<>>]
        ELSE LET t == root_object[1].id
                 c1 == _add_children(t, workspaces, init)
                 c2 == AddChildrenEach(workspaces, workspace_candidates(workspaces, databases), c1)
                 c3 == IF include_rows THEN AddChildrenEach(databases, rows, c2) ELSE c2
             IN [op |-> "get_tree", status |-> "ok",
                 include_rows |-> include_rows, root |-> t, children |-> c3]

\* ------------------------------------------------------------ Python values
\* None (and NaN, which pandas puts where a value is missing)
None == [tag |-> "None", items |-> <<>>]

\* a scalar
Str(x) == [tag |-> "str", items |-> <<x>>]

\* the structured value of a field: {"selectedOptions": xs}, {"fileIds": xs}
\* or {"rowIds": xs}
Dict(key, xs) == [tag |-> key, items |-> xs]

\* [Str(x) for x in xs]
Strs(xs) == [k \in 1..Len(xs) |-> Str(xs[k])]

\* A cell of a column list: `data[id].extend(value)` stores each element of
\* value as a cell of its own, `data[id].append(value)` stores the list.
Scalar(e) == [many |-> FALSE, elems |-> <<e>>]

List(es) == [many |-> TRUE, elems |-> es]

\* A Python dict keeps its keys in insertion order: a sequence of entries.
DictHas(d, k) == \E i \in 1..Len(d) : d[i].key = k

DictGet(d, k) == d[CHOOSE i \in 1..Len(d) : d[i].key = k].val

\* d[k] = v
DictSet(d, k, v) ==
    IF DictHas(d, k)
    THEN [i \in 1..Len(d) |-> IF d[i].key = k THEN [key |-> k, val |-> v] ELSE d[i]]
    ELSE Append(d, [key |-> k, val |-> v])

\* d.pop(k, None)
DictPop(d, k) == SelectSeq(d, LAMBDA e : e.key # k)

DictKeys(d) == {d[i].key : i \in 1..Len(d)}

\* list(set(xs)): the distinct elements; the set fixes no order
Distinct(xs) == Range(xs)

\* -------------------------------------------------------------- collaborators
\* describe_file(file_id)["name"]
describe_file_name(file_id) == 10 + file_id

\* convert_id_format(ids=...)[k]["hid"]
convert_id_format_hid(id) == 100 + id

Call(op, arg) == [op |-> op, arg |-> arg]

\* --------------------------------------------------------- _parse_column_value
\* value = [field["value"] for field in fields if field["columnId"] == column["id"]]
matching_values(column, fields) ==
    LET m == SelectSeq(fields, LAMBDA f : f.columnId = column.id)
    IN  [k \in 1..Len(m) |-> m[k].value]

\* a list that stays empty where the code puts [None]
none_if_empty_skipped(value) == value

\* if len(value) == 0: value = [None]
none_if_empty(value) == IF Len(value) = 0 THEN <<None>> ELSE value

\* Returns the value list with file_ids and reference_ids as extended by the
\* call and the collaborator calls it made.
_parse_column_value(column, fields, file_ids, reference_ids, use_file_names, reference_format) ==
    LET value == matching_values(column, fields)
        unwrapped ==
            IF Len(value) = 1 THEN value[1].items ELSE <<>>
        out ==
            CASE column.type = "select" /\ Len(value) = 1 ->
                    [value |-> Strs(unwrapped), file_ids |-> file_ids,
                     reference_ids |-> reference_ids, calls |-> <<>>]
              [] column.type = "file" /\ Len(value) = 1 ->
                    [value |-> IF use_file_names
                               THEN [k \in 1..Len(unwrapped) |->
                                        Str(describe_file_name(unwrapped[k]))]
                               ELSE Strs(unwrapped),
                     file_ids |-> file_ids \o unwrapped,
                     reference_ids |-> reference_ids,
                     calls |-> IF use_file_names
                               THEN [k \in 1..Len(unwrapped) |->
                                        Call("describe_file", unwrapped[k])]
                               ELSE <<>>]
              [] column.type = "reference" /\ Len(value) = 1 ->
                    [value |-> IF reference_format = "human-id"
                               THEN [k \in 1..Len(unwrapped) |->
                                        Str(convert_id_format_hid(unwrapped[k]))]
                               ELSE Strs(unwrapped),
                     file_ids |-> file_ids,
                     reference_ids |-> reference_ids \o unwrapped,
                     calls |-> IF reference_format = "human-id"
                               THEN <<Call("convert_id_format", 0)>>
                               ELSE <<>>]
              [] OTHER ->
                    [value |-> value, file_ids |-> file_ids,
                     reference_ids |-> reference_ids, calls |-> <<>>]
    IN  [out EXCEPT !.value = none_if_empty(@)]

\* -------------------------------------------------------------- get_dataframe
\* A column descriptor (an item of the `cols` of a database).
Column(id, name, type, cardinality, ref) ==
    [id |-> id, name |-> name, key |-> id, type |-> type,
     cardinality |-> cardinality, options |-> <<1, 2>>,
     referenceDatabaseRowId |-> ref]

\* A field of a row: the cell of column columnId.
Field(columnId, value) == [columnId |-> columnId, value |-> value]

\* list_database_rows(database_id): the rows of that database
list_database_rows(database_id) ==
    SelectSeq(store, LAMBDA o : o.type = "row" /\ o.parentId = database_id)

\* describe_row(id): the objects the id resolves to (none: the service fails)
describe_row(id) == SelectSeq(store, LAMBDA o : o.id = id)

\* response["hidPrefix"] + "-id"
row_id_key(hidPrefix) == hidPrefix \o "-id"

\* if column["cardinality"] == "many": append(value) else: extend(value)
extend_or_append(cardinality, old, value) ==
    IF cardinality = "many"
    THEN Append(old, List(value))
    ELSE old \o [k \in 1..Len(value) |-> Scalar(value[k])]

RECURSIVE ParseColumns(_, _, _, _, _)
ParseColumns(columns, fields, acc, use_file_names, reference_format) ==
    IF columns = <<>> THEN acc
    ELSE LET column == Head(columns)
             r == _parse_column_value(column, fields, acc.file_ids,
                                      acc.reference_ids, use_file_names,
                                      reference_format)
             new == extend_or_append(column.cardinality,
                                     DictGet(acc.data, column.id), r.value)
         IN  ParseColumns(Tail(columns), fields,
                          [data |-> DictSet(acc.data, column.id, new),
                           file_ids |-> r.file_ids,
                           reference_ids |-> r.reference_ids,
                           calls |-> acc.calls \o r.calls],
                          use_file_names, reference_format)

\* `for row in rows:` (api.py:264-282)
RECURSIVE AssembleRows(_, _, _, _, _, _)
AssembleRows(rows, columns, row_id, acc, use_file_names, reference_format) ==
    IF rows = <<>> THEN acc
    ELSE LET row == Head(rows)
             d1 == DictSet(acc.data, row_id,
                           Append(DictGet(acc.data, row_id), Scalar(Str(row.hid))))
             d2 == DictSet(d1, "Validation Status",
                           Append(DictGet(d1, "Validation Status"),
                                  Scalar(Str(row.validationStatus))))
         IN  AssembleRows(Tail(rows), columns, row_id,
                          ParseColumns(columns, row.fields,
                                       [acc EXCEPT !.data = d2],
                                       use_file_names, reference_format),
                          use_file_names, reference_format)

\* `for column in columns: data[column["id"]] = []` (api.py:261-262)
RECURSIVE EmptyLists(_, _)
EmptyLists(columns, data) ==
    IF columns = <<>> THEN data
    ELSE EmptyLists(Tail(columns), DictSet(data, Head(columns).id, <<>>))

\* column_mapper[column["id"]] = column["name"] for every column
RECURSIVE column_mapper(_, _)
column_mapper(columns, mapper) ==
    IF columns = <<>> THEN mapper
    ELSE column_mapper(Tail(columns),
                       DictSet(mapper, Head(columns).id, Head(columns).name))

\* pd.DataFrame(data) raises ValueError unless all lists have one length.
SameLength(data) ==
    \A i, j \in 1..Len(data) : Len(data[i].val) = Len(data[j].val)

\* The columns of pd.DataFrame(data): one per key, none with attrs.
DataFrame(data) ==
    [i \in 1..Len(data) |-> [key |-> data[i].key, val |-> data[i].val, attrs |-> <<>>]]

\* pd.Categorical(values, categories=categories): a value that is no category
\* becomes NaN.
Categorical(cell, categories) ==
    IF cell.elems[1].tag = "str" /\ cell.elems[1].items[1] \in Range(categories)
    THEN cell
    ELSE Scalar(None)

\* df[col_id] = pd.Categorical(df[col_id], categories=...) for every select
\* column of cardinality one (api.py:375-380)
RECURSIVE TypeSelectColumns(_, _)
TypeSelectColumns(columns, df) ==
    IF columns = <<>> THEN df
    ELSE LET column == Head(columns)
             typed == [i \in 1..Len(df) |->
                         IF df[i].key = column.id
                         THEN [df[i] EXCEPT !.val =
                                 [k \in 1..Len(df[i].val) |->
                                     Categorical(df[i].val[k], column.options)]]
                         ELSE df[i]]
         IN  TypeSelectColumns(Tail(columns),
                 IF column.type = "select" /\ column.cardinality = "one"
                 THEN typed ELSE df)

\* df.rename(columns=mapper): every label that is a key of the mapper is
\* replaced, all at once.
rename(df, mapper) ==
    [i \in 1..Len(df) |->
        IF DictHas(mapper, df[i].key)
        THEN [df[i] EXCEPT !.key = DictGet(mapper, df[i].key)]
        ELSE df[i]]

\* df[label].attrs = attrs: kept when the label names one column (a Series);
\* with a repeated label df[label] is a fresh DataFrame and nothing is kept.
SetAttrs(df, label, attrs) ==
    IF Cardinality({i \in 1..Len(df) : df[i].key = label}) = 1
    THEN [i \in 1..Len(df) |->
            IF df[i].key = label THEN [df[i] EXCEPT !.attrs = <<attrs>>] ELSE df[i]]
    ELSE df

RECURSIVE AttachColumns(_, _)
AttachColumns(columns, df) ==
    IF columns = <<>> THEN df
    ELSE AttachColumns(Tail(columns), SetAttrs(df, Head(columns).name, Head(columns)))

_type_and_cleanup_dataframe(df, columns) ==
    LET typed == TypeSelectColumns(columns, df)
        renamed == rename(typed, column_mapper(columns, <<>>))
        wiped == [i \in 1..Len(renamed) |-> [renamed[i] EXCEPT !.attrs = <<>>]]
        attached == AttachColumns(columns, wiped)
    IN  SetAttrs(attached, "Validation Status",
                 Column("", "Validation Status", "Validation Status", "", Null))

\* The `else` branch of get_dataframe (api.py:300-309): rename the keys of a
\* copy of data, one mapper key after the other.
RECURSIVE RenameKeys(_, _, _, _)
RenameKeys(keys, mapper, data, renamed_data) ==
    IF keys = <<>> THEN renamed_data
    ELSE LET key == Head(keys).key
             new_key == DictGet(mapper, key)
         IN  RenameKeys(Tail(keys), mapper, data,
                        DictPop(DictSet(renamed_data, new_key, DictGet(data, key)), key))

\* assert response["type"] == "database"
not_a_database(response) == response.type # "database"

get_dataframe(database_id, use_file_names, reference_format, return_type) ==
    LET call == [op |-> "get_dataframe", database_id |-> database_id,
                 use_file_names |-> use_file_names,
                 reference_format |-> reference_format,
                 return_type |-> return_type]
        rows == list_database_rows(database_id)
        found == describe_row(database_id)
        response == found[1]
        first == <<Call("list_database_rows", database_id),
                   Call("describe_row", database_id)>>
    IN  IF found = <<>>
        THEN call @@ [status |-> "error", error |-> "NotFound", calls |-> first]
        ELSE IF not_a_database(response)
        THEN call @@ [status |-> "error", error |-> "AssertionError", calls |-> first]
        ELSE
        LET columns == response.cols
            row_id == row_id_key(response.hidPrefix)
            data0 == EmptyLists(columns,
                        DictSet(DictSet(<<>>, "Validation Status", <<>>), row_id, <<>>))
            acc == AssembleRows(rows, columns, row_id,
                                [data |-> data0, file_ids |-> <<>>,
                                 reference_ids |-> <<>>, calls |-> first],
                                use_file_names, reference_format)
        IN  IF return_type = "dataframe"
            THEN IF ~SameLength(acc.data)
                 THEN call @@ [status |-> "error", error |-> "ValueError",
                               calls |-> acc.calls]
                 ELSE call @@
                      [status |-> "ok", error |-> "", calls |-> acc.calls,
                       data |-> _type_and_cleanup_dataframe(DataFrame(acc.data), columns),
                       file_ids |-> Distinct(acc.file_ids),
                       reference_ids |-> Distinct(acc.reference_ids),
                       id |-> response.id, primary_key |-> row_id]
            ELSE call @@
                 [status |-> "ok", error |-> "", calls |-> acc.calls,
                  data |-> RenameKeys(column_mapper(columns, <<>>),
                                      column_mapper(columns, <<>>),
                                      acc.data, acc.data)]

\* ------------------------------------------------- download, download_database
\* the orders in which `for file_id in file_ids` may visit list(set(...))
Orders(S) == {o \in [1..Cardinality(S) -> S] : Range(o) = S}

\* if not os.path.isdir(destination): raise DeepOriginException(...)
destination_rejected_never == FALSE

destination_rejected == ~isdir

\* The outcomes of download_database(source, destination, include_files),
\* one for each order of the file ids; `made` are the calls the caller made
\* before it and `call` names the caller's call.
download_database(call, source, source_is_str, include_files, made) ==
    IF destination_rejected
    THEN {call @@ [status |-> "error", error |-> "DeepOriginException",
                   calls |-> made, written |-> <<>>]}
    ELSE
    LET found == IF source_is_str THEN describe_row(source) ELSE <<source>>
        made1 == IF source_is_str
                 THEN Append(made, Call("describe_row", source)) ELSE made
    IN  IF found = <<>>
        THEN {call @@ [status |-> "error", error |-> "NotFound",
                       calls |-> made1, written |-> <<>>]}
        ELSE
        LET database_id == found[1].id
            database_hid == found[1].hid
            df == get_dataframe(database_id, TRUE, "human-id", "dataframe")
            made2 == made1 \o df.calls
        IN  IF df.status # "ok"
            THEN {call @@ [status |-> "error", error |-> df.error,
                           calls |-> made2, written |-> <<>>]}
            ELSE {call @@
                  [status |-> "ok", error |-> "",
                   calls |-> made2 \o
                       (IF include_files
                        THEN [k \in 1..Len(order) |-> Call("download_file", order[k])]
                        ELSE <<>>),
                   \* df.to_csv(os.path.join(destination, database_hid + ".csv"))
                   written |-> <<database_hid>>]
                  : order \in Orders(df.file_ids)}

\* The outcomes of download(source, destination, include_files).
download(source, include_files) ==
    LET call == [op |-> "download", source |-> source,
                 include_files |-> include_files]
    IN  IF destination_rejected
        THEN {call @@ [status |-> "error", error |-> "DeepOriginException",
                       calls |-> <<>>, written |-> <<>>]}
        ELSE
        LET obj == describe_row(source)
            made == <<Call("describe_row", source)>>
        IN  IF obj = <<>>
            THEN {call @@ [status |-> "error", error |-> "NotFound",
                           calls |-> made, written |-> <<>>]}
            ELSE IF obj[1].type = "database"
            THEN download_database(call, obj[1], FALSE, include_files, made)
            ELSE {call @@ [status |-> "error", error |-> "NotImplementedError",
                           calls |-> made, written |-> <<>>]}

\* --------------------------------------------------------------- get_row_data
\* if response["type"] != "row": raise DeepOriginException(...)
not_a_row_unchecked(response) == FALSE

not_a_row(response) == response.type # "row"

\* column_name_mapper / column_cardinality_mapper (api.py:466-473)
RECURSIVE column_mappers(_, _, _)
column_mappers(cols, use_column_keys, mappers) ==
    IF cols = <<>> THEN mappers
    ELSE LET col == Head(cols)
         IN  column_mappers(Tail(cols), use_column_keys,
                 [name |-> DictSet(mappers.name, col.id,
                                   IF use_column_keys THEN col.key ELSE col.name),
                  cardinality |-> DictSet(mappers.cardinality, col.id, col.cardinality)])

\* `for field in response["fields"]:` (api.py:477-493); acc.error names the
\* exception that ended the loop, if any
RECURSIVE RowData(_, _, _)
RowData(fields, mappers, acc) ==
    IF fields = <<>> \/ acc.error # "" THEN acc
    ELSE LET field == Head(fields)
             column_id == field.columnId
             raw == field.value
             \* selectedOptions and fileIds are unwrapped to their list
             is_list == raw.tag \in {"selectedOptions", "fileIds"}
         IN  IF ~DictHas(mappers.cardinality, column_id)
             THEN [acc EXCEPT !.error = "KeyError"]
             ELSE IF DictGet(mappers.cardinality, column_id) = "one" /\ is_list
             THEN IF raw.items = <<>>
                  THEN [acc EXCEPT !.error = "IndexError"]
                  ELSE RowData(Tail(fields), mappers,
                          [acc EXCEPT !.row_data =
                              DictSet(@, DictGet(mappers.name, column_id),
                                      Scalar(Str(raw.items[1])))])
             ELSE RowData(Tail(fields), mappers,
                     [acc EXCEPT !.row_data =
                         DictSet(@, DictGet(mappers.name, column_id),
                                 IF is_list THEN List(Strs(raw.items))
                                 ELSE Scalar(raw))])

get_row_data(row_id, use_column_keys) ==
    LET call == [op |-> "get_row_data", row_id |-> row_id,
                 use_column_keys |-> use_column_keys]
        found == describe_row(row_id)
        response == found[1]
        first == <<Call("describe_row", row_id)>>
    IN  IF found = <<>>
        THEN call @@ [status |-> "error", error |-> "NotFound", calls |-> first]
        ELSE IF not_a_row(response)
        THEN call @@ [status |-> "error", error |-> "DeepOriginException",
                      calls |-> first]
        ELSE
        LET parent == describe_row(response.parentId)
            parent_response == parent[1]
            second == Append(first, Call("describe_row", response.parentId))
        IN  IF parent = <<>>
            THEN call @@ [status |-> "error", error |-> "NotFound", calls |-> second]
            ELSE IF parent_response.type # "database"
            THEN call @@ [status |-> "error", error |-> "DeepOriginException",
                          calls |-> second]
            ELSE
            LET mappers == column_mappers(parent_response.cols, use_column_keys,
                                          [name |-> <<>>, cardinality |-> <<>>])
                acc == RowData(response.fields, mappers,
                               [row_data |-> <<>>, error |-> ""])
            IN  IF acc.error # ""
                THEN call @@ [status |-> "error", error |-> acc.error,
                              calls |-> second]
                ELSE call @@ [status |-> "ok", error |-> "", calls |-> second,
                              row_data |-> acc.row_data]

\* -------------------------------------------------------------- get_cell_data
\* data = get_row_data(row_id); return data[column_name]
get_cell_data(row_id, column_name) ==
    LET call == [op |-> "get_cell_data", row_id |-> row_id,
                 column_name |-> column_name]
        data == get_row_data(row_id, FALSE)
    IN  IF data.status # "ok"
        THEN call @@ [status |-> "error", error |-> data.error, calls |-> data.calls]
        ELSE IF ~DictHas(data.row_data, column_name)
        THEN call @@ [status |-> "error", error |-> "KeyError", calls |-> data.calls]
        ELSE call @@ [status |-> "ok", error |-> "", calls |-> data.calls,
                      value |-> DictGet(data.row_data, column_name)]

\* ------------------------------------------------------------ merge_databases
Labels(df) == {df[k].key : k \in 1..Len(df)}

NumRows(df) == IF df = <<>> THEN 0 ELSE Len(df[1].val)

\* the cells of the column of df labelled label (the first, if several are)
ColumnOf(df, label) ==
    df[CHOOSE k \in 1..Len(df) : df[k].key = label /\ \A j \in 1..(k - 1) : df[j].key # label].val

\* "referenceDatabaseRowId" in df[column].attrs.keys(): the descriptor of a
\* reference column carries the key; a repeated label has no descriptor.
HasReference(df, k) ==
    /\ Cardinality({j \in 1..Len(df) : df[j].key = df[k].key}) = 1
    /\ df[k].attrs # <<>>
    /\ df[k].attrs[1].referenceDatabaseRowId # Null

\* left.merge(right, how="outer"): the pairs <<i, j>> of joined rows, 0 for
\* the missing side, joined on the labels both tables carry.
Matches(left, right, keys, i, j) ==
    \A key \in keys : ColumnOf(left, key)[i] = ColumnOf(right, key)[j]

RECURSIVE SetToSeq(_)
SetToSeq(S) ==
    IF S = {} THEN <<>>
    ELSE LET x == CHOOSE y \in S : \A z \in S : y <= z
         IN  <<x>> \o SetToSeq(S \ {x})

RECURSIVE LeftPairs(_, _, _, _)
LeftPairs(left, right, keys, i) ==
    IF i > NumRows(left) THEN <<>>
    ELSE LET js == SetToSeq({j \in 1..NumRows(right) : Matches(left, right, keys, i, j)})
         IN  (IF js = <<>> THEN << <<i, 0>> >>
              ELSE [k \in 1..Len(js) |-> <<i, js[k]>>])
             \o LeftPairs(left, right, keys, i + 1)

OuterPairs(left, right, keys) ==
    LET unmatched == SetToSeq({j \in 1..NumRows(right) :
                                  \A i \in 1..NumRows(left) :
                                     ~Matches(left, right, keys, i, j)})
    IN  LeftPairs(left, right, keys, 1)
        \o [k \in 1..Len(unmatched) |-> <<0, unmatched[k]>>]

\* the joined table: the columns of left, then those of right that are no key
merge_outer(left, right) ==
    LET keys == Labels(left) \cap Labels(right)
        pairs == OuterPairs(left, right, keys)
        fromLeft ==
            [c \in 1..Len(left) |->
                [key |-> left[c].key,
                 val |-> [p \in 1..Len(pairs) |->
                            IF pairs[p][1] # 0 THEN left[c].val[pairs[p][1]]
                            ELSE IF left[c].key \in keys
                            THEN ColumnOf(right, left[c].key)[pairs[p][2]]
                            ELSE Scalar(None)]]]
        rest == SelectSeq(right, LAMBDA col : col.key \notin keys)
        fromRight ==
            [c \in 1..Len(rest) |->
                [key |-> rest[c].key,
                 val |-> [p \in 1..Len(pairs) |->
                            IF pairs[p][2] # 0 THEN rest[c].val[pairs[p][2]]
                            ELSE Scalar(None)]]]
    IN  [pairs |-> pairs, data |-> fromLeft \o fromRight]

\* a label that is a join key names one column on each side
UniqueKeys(left, right) ==
    \A key \in Labels(left) \cap Labels(right) :
        /\ Cardinality({k \in 1..Len(left) : left[k].key = key}) = 1
        /\ Cardinality({k \in 1..Len(right) : right[k].key = key}) = 1

\* the column_mapper of one table (api.py:534-542): label -> primary key of
\* the referenced table, for every column whose descriptor has a reference
RECURSIVE reference_mapper(_, _, _, _)
reference_mapper(df, k, cross_reference_mapper, mapper) ==
    IF k > Len(df) THEN mapper
    ELSE reference_mapper(df, k + 1, cross_reference_mapper,
             IF HasReference(df, k)
             THEN DictSet(mapper, df[k].key,
                          DictGet(cross_reference_mapper,
                                  df[k].attrs[1].referenceDatabaseRowId))
             ELSE mapper)

\* a reference to a database that is none of the merged ones: the lookup in
\* cross_reference_mapper raises KeyError
UnknownReference(df, cross_reference_mapper) ==
    \E k \in 1..Len(df) :
        /\ HasReference(df, k)
        /\ ~DictHas(cross_reference_mapper, df[k].attrs[1].referenceDatabaseRowId)

\* merge_databases([t1, t2]) for two tables as get_dataframe returned them
merge_databases(t1, t2) ==
    LET call == [op |-> "merge_databases", left |-> t1.id, right |-> t2.id]
        cross_reference_mapper ==
            DictSet(DictSet(<<>>, t1.id, t1.primary_key), t2.id, t2.primary_key)
    IN  IF UnknownReference(t1.data, cross_reference_mapper)
        THEN call @@ [status |-> "error", error |-> "KeyError",
                      dfs |-> <<t1.data, t2.data>>]
        ELSE
        LET df1 == rename(t1.data,
                          reference_mapper(t1.data, 1, cross_reference_mapper, <<>>))
        IN  IF UnknownReference(t2.data, cross_reference_mapper)
            THEN call @@ [status |-> "error", error |-> "KeyError",
                          dfs |-> <<df1, t2.data>>]
            ELSE
            LET df2 == rename(t2.data,
                              reference_mapper(t2.data, 1, cross_reference_mapper, <<>>))
            IN  IF Labels(df1) \cap Labels(df2) = {}
                THEN call @@ [status |-> "error", error |-> "MergeError",
                              dfs |-> <<df1, df2>>]
                ELSE IF ~UniqueKeys(df1, df2)
                THEN call @@ [status |-> "error", error |-> "ValueError",
                              dfs |-> <<df1, df2>>]
                ELSE call @@ [status |-> "ok", error |-> "",
                              dfs |-> <<df1, df2>>]
                          @@ merge_outer(df1, df2)

\* ------------------------------------------------------------ specification
\* The type of object that may hold an object of type t: workspaces and
\* databases live in workspaces, rows in databases.
ParentType(t) == IF t = "row" THEN "database" ELSE "workspace"

\* Record sets for get_tree: object i has id i; its parentId is None, the id of
\* a listed object of the type that holds it, or an id outside the listing.
\* Nothing limits the number of objects without a parent.
TreeStores ==
    UNION {{f \in [1..n -> (0..(n + 1)) \X RowType] :
              \A i \in 1..n :
                  f[i][1] \in 1..n => /\ f[i][1] # i
                                      /\ f[f[i][1]][2] = ParentType(f[i][2])}
           : n \in 0..MaxObjects}

InitTree ==
    /\ \E f \in TreeStores :
          store = [i \in DOMAIN f |-> Object(i, f[i][1], f[i][2])]
    /\ isdir = TRUE
    /\ returned = NotCalled

GetTree ==
    /\ \E include_rows \in BOOLEAN : returned' = get_tree(include_rows)
    /\ UNCHANGED <<store, isdir>>

NextTree == GetTree

SpecTree == InitTree /\ [][NextTree]_vars

\* Databases for get_dataframe: workspace 1 holds database 2, whose rows are
\* the objects 3, 4, ...  A field carries a value of the shape its column's
\* type gives it; 1 is an option of a select column and 3 is not.
Tokens == {1, 3}

Lists == SeqsUpTo(Tokens, MaxItems)

DataType == {"text", "select", "file", "reference"}

Cardinality_ == {"one", "many"}

FieldValues(type) ==
    CASE type = "select" -> {Dict("selectedOptions", xs) : xs \in Lists}
      [] type = "file" -> {Dict("fileIds", xs) : xs \in Lists}
      [] type = "reference" -> {Dict("rowIds", xs) : xs \in Lists}
      [] OTHER -> {Str(x) : x \in Tokens}

\* the lists of at most MaxFields fields of the given columns
FieldLists(columns) ==
    SeqsUpTo(UNION {{Field(c.id, v) : v \in FieldValues(c.type)} : c \in Range(columns)},
             MaxFields)

Database(columns, fieldLists) ==
    <<Object(1, Null, "workspace"), Record(2, 1, "database", columns, <<>>)>>
    \o [k \in 1..Len(fieldLists) |-> Record(2 + k, 2, "row", <<>>, fieldLists[k])]

\* one column of any type and cardinality
FrameColumns ==
    {<<Column("c1", "Name", t, c, IF t = "reference" THEN 9 ELSE Null)>> :
        t \in DataType, c \in Cardinality_}

\* The names a column may carry: a plain name, the id of a column, or one of
\* the keys get_dataframe reserves.
Names == {"Name", "c1", "c2", "Validation Status", "DB-id"}

\* one or two text columns of cardinality one with any names
ShapeColumns ==
    {<<Column("c1", n1, "text", "one", Null)>> : n1 \in Names}
    \cup {<<Column("c1", n1, "text", "one", Null), Column("c2", n2, "text", "one", Null)>> :
             n1 \in Names, n2 \in Names}

\* a list of fields with at most one field per column
OneCellPerColumn(fields) ==
    \A i, j \in 1..Len(fields) : i # j => fields[i].columnId # fields[j].columnId

WellFormed(columns) == {f \in FieldLists(columns) : OneCellPerColumn(f)}

\* Under one column of any type: up to MaxRows rows with one cell per column,
\* or one row with any fields.  Under columns of any names: one row with one
\* cell per column.
InitFrame ==
    /\ \/ \E cols \in FrameColumns, n \in 0..MaxRows :
             \E fl \in [1..n -> WellFormed(cols)] : store = Database(cols, fl)
       \/ \E cols \in FrameColumns :
             \E fl \in FieldLists(cols) : store = Database(cols, <<fl>>)
       \/ \E cols \in ShapeColumns :
             \E fl \in WellFormed(cols) : store = Database(cols, <<fl>>)
    /\ isdir = TRUE
    /\ returned = NotCalled

IDFormat == {"human-id", "system-id"}

DatabaseReturnType == {"dataframe", "dict"}

StoreIds == {o.id : o \in Range(store)}

DatabaseIds == {o.id : o \in {x \in Range(store) : x.type = "database"}}

\* get_dataframe called with one of the given ids
GetDataframe(ids) ==
    /\ \E database_id \in ids, use_file_names \in BOOLEAN,
          reference_format \in IDFormat, return_type \in DatabaseReturnType :
          returned' = get_dataframe(database_id, use_file_names, reference_format,
                                    return_type)
    /\ UNCHANGED <<store, isdir>>

\* _parse_column_value called for a column of a database and the fields of
\* one of its rows, with fresh file_ids and reference_ids lists
ParseColumnValue ==
    /\ \E d \in {x \in Range(store) : x.type = "database"} :
       \E row \in Range(list_database_rows(d.id)), column \in Range(d.cols),
          use_file_names \in BOOLEAN, reference_format \in IDFormat :
          returned' =
              [op |-> "_parse_column_value", status |-> "ok",
               column |-> column, fields |-> row.fields,
               use_file_names |-> use_file_names,
               reference_format |-> reference_format]
              @@ _parse_column_value(column, row.fields, <<>>, <<>>,
                                     use_file_names, reference_format)
    /\ UNCHANGED <<store, isdir>>

NextFrame == GetDataframe(DatabaseIds) \/ ParseColumnValue

SpecFrame == InitFrame /\ [][NextFrame]_vars

\* The fields _parse_column_value is called with: values whose list has at
\* most one element, or any value of the column's type.
ShortValues(type) == {v \in FieldValues(type) : Len(v.items) <= 1}

\* the lists of at most MaxFields fields of the given columns with short values
ShortFieldLists(columns) ==
    SeqsUpTo(UNION {{Field(c.id, v) : v \in ShortValues(c.type)} : c \in Range(columns)},
             MaxFields)

\* Under one column of any type and cardinality: up to MaxRows rows with at
\* most one cell per column, or one row with up to MaxFields fields of the
\* column, or one row with one field of any value.
InitParse ==
    /\ \/ \E cols \in FrameColumns, n \in 0..MaxRows :
             \E fl \in [1..n -> {f \in ShortFieldLists(cols) : OneCellPerColumn(f)}] :
                store = Database(cols, fl)
       \/ \E cols \in FrameColumns :
             \E fl \in ShortFieldLists(cols) : store = Database(cols, <<fl>>)
       \/ \E cols \in FrameColumns :
             \E v \in FieldValues(cols[1].type) :
                store = Database(cols, <<(<<Field(cols[1].id, v)>>)>>)
    /\ isdir = TRUE
    /\ returned = NotCalled

NextParse == ParseColumnValue \/ GetDataframe(DatabaseIds)

SpecParse == InitParse /\ [][NextParse]_vars

\* The file lists a row of a downloaded database may carry.
FileLists == {<<>>, <<1>>, <<3>>, <<1, 3>>, <<1, 1>>}

\* the fields of a row under one file column: none, or one with a file list
FileRows == {<<>>} \cup {<<Field("c1", Dict("fileIds", xs))>> : xs \in FileLists}

\* A database with one file column and up to MaxRows rows, and a destination
\* that is a directory or not.
InitDownload ==
    /\ \E c \in Cardinality_, n \in 0..MaxRows :
          \E fl \in [1..n -> FileRows] :
             store = Database(<<Column("c1", "Name", "file", c, Null)>>, fl)
    /\ isdir \in BOOLEAN
    /\ returned = NotCalled

Download ==
    /\ \E source \in StoreIds, include_files \in BOOLEAN :
          returned' \in download(source, include_files)
    /\ UNCHANGED <<store, isdir>>

DownloadDatabase ==
    /\ \E source \in StoreIds, include_files \in BOOLEAN :
          returned' \in download_database(
                           [op |-> "download_database", source |-> source,
                            include_files |-> include_files],
                           source, TRUE, include_files, <<>>)
    /\ UNCHANGED <<store, isdir>>

NextDownload == Download \/ DownloadDatabase

SpecDownload == InitDownload /\ [][NextDownload]_vars

\* Up to MaxNodes objects of any type under any parent; every database has one
\* text column and every row one field of it.
InitResolve ==
    /\ \E n \in 0..MaxNodes :
          \E f \in [1..n -> (0..(n + 1)) \X RowType] :
             store = [i \in 1..n |->
                        Record(i, f[i][1], f[i][2],
                               IF f[i][2] = "database"
                               THEN <<Column("c1", "Name", "text", "one", Null)>>
                               ELSE <<>>,
                               IF f[i][2] = "row"
                               THEN <<Field("c1", Str(1))>> ELSE <<>>)]
    /\ isdir = TRUE
    /\ returned = NotCalled

GetRowData(ids) ==
    /\ \E row_id \in ids, use_column_keys \in BOOLEAN :
          returned' = get_row_data(row_id, use_column_keys)
    /\ UNCHANGED <<store, isdir>>

NextResolve == GetDataframe(StoreIds) \/ GetRowData(StoreIds)

SpecResolve == InitResolve /\ [][NextResolve]_vars

\* get_cell_data called for one of the given ids and a column name
GetCellData(ids) ==
    /\ \E row_id \in ids, column_name \in Names :
          returned' = get_cell_data(row_id, column_name)
    /\ UNCHANGED <<store, isdir>>

NextCell == GetRowData(StoreIds) \/ GetCellData(StoreIds)

\* get_row_data and get_cell_data on the rows of the databases of InitFrame
SpecCell == InitFrame /\ [][NextCell]_vars

\* Two databases under workspace 1: database 2 with a reference column that
\* points at itself, at database 3 or at a database that is not merged, and
\* database 3 with a text column.  The rows of database 2 refer to a row of
\* database 3, to a row that database 3 does not hold, or to none.
MergeStore(ref, n3, refs) ==
    <<Object(1, Null, "workspace"),
      DatabaseRecord(2, 1, <<Column("r", "Ref", "reference", "one", ref)>>, "DB1"),
      DatabaseRecord(3, 1, <<Column("b", "B", "text", "one", Null)>>, "DB2")>>
    \o [k \in 1..n3 |-> Record(3 + k, 3, "row", <<>>, <<Field("b", Str(1))>>)]
    \o [k \in 1..Len(refs) |->
          Record(3 + n3 + k, 2, "row", <<>>,
                 IF refs[k] = Null THEN <<>>
                 ELSE <<Field("r", Dict("rowIds", <<refs[k]>>))>>)]

InitMerge ==
    /\ \E ref \in {2, 3, 9}, n3 \in 0..MaxRows, n2 \in 0..MaxRows :
          \E refs \in [1..n2 -> {Null} \cup (4..(4 + n3))] :
             store = MergeStore(ref, n3, refs)
    /\ isdir = TRUE
    /\ returned = NotCalled

\* merge_databases called with the tables of two different databases
MergeDatabases ==
    /\ \E a \in DatabaseIds, b \in DatabaseIds :
          LET t1 == get_dataframe(a, TRUE, "human-id", "dataframe")
              t2 == get_dataframe(b, TRUE, "human-id", "dataframe")
          IN  /\ a # b
              /\ t1.status = "ok"
              /\ t2.status = "ok"
              /\ returned' = merge_databases(t1, t2)
    /\ UNCHANGED <<store, isdir>>

NextMerge == MergeDatabases

SpecMerge == InitMerge /\ [][NextMerge]_vars

\* ------------------------------------------------------------------ C1
\* What a get_tree call fetches, in the order the service returned it.
Fetched(include_rows) ==
    IF include_rows THEN store
    ELSE SelectSeq(store, LAMBDA o : o.type = "workspace")
         \o SelectSeq(store, LAMBDA o : o.type = "database")

Roots(include_rows) ==
    {o.id : o \in {x \in Range(Fetched(include_rows)) : x.parentId = Null}}

\* C1: with exactly one fetched object whose parentId is None, get_tree
\* returns that object as the root; with none or several it fails and
\* returns no tree; for include_rows true and false alike.
C1_ExactlyOneRoot ==
    returned.op = "get_tree" =>
        LET roots == Roots(returned.include_rows)
        IN  /\ Cardinality(roots) = 1 => returned.status = "ok" /\ returned.root \in roots
            /\ Cardinality(roots) # 1 => returned.status = "error" /\ returned.root = Null

\* get_tree(include_rows=False) has failed on a listing with two roots, one
\* of them a workspace and one a database.
C1_Witness ==
    /\ returned.op = "get_tree"
    /\ returned.status = "error"
    /\ ~returned.include_rows
    /\ Cardinality(Roots(FALSE)) = 2
    /\ \E o \in Range(store) : o.parentId = Null /\ o.type = "database"
    /\ \E o \in Range(store) : o.parentId = Null /\ o.type = "workspace"

\* ------------------------------------------------------------------ C2
IdsOf(objects) == [k \in 1..Len(objects) |-> objects[k].id]

\* The nodes the claim speaks of: the root, the workspaces and the databases
\* of the fetched set.
TreeNodes(include_rows) ==
    {o \in Range(Fetched(include_rows)) :
        o.id = returned.root \/ o.type \in {"workspace", "database"}}

\* C2 as stated: after get_tree returns, the children of every node N (root,
\* workspace, database) are exactly the fetched objects whose parentId is
\* N.id, in the order in which the record store returned them.
C2_ChildrenInReturnedOrder ==
    returned.op = "get_tree" /\ returned.status = "ok" =>
        \A n \in TreeNodes(returned.include_rows) :
            returned.children[n.id] =
                IdsOf(SelectSeq(Fetched(returned.include_rows),
                             LAMBDA o : o.parentId = n.id))

\* The candidates get_tree draws the children of node n from: a workspace
\* takes workspaces and then databases, a database takes rows (none when rows
\* are not fetched), and a root that is no workspace takes workspaces.
Candidates(n, include_rows) ==
    LET ws == SelectSeq(store, LAMBDA o : o.type = "workspace")
        dbs == SelectSeq(store, LAMBDA o : o.type = "database")
        rows == SelectSeq(store, LAMBDA o : o.type = "row")
    IN  CASE n.type = "workspace" -> ws \o dbs
          [] n.type = "database" /\ include_rows -> rows
          [] n.type = "database" /\ ~include_rows /\ n.id = returned.root -> ws
          [] n.type = "database" /\ ~include_rows /\ n.id # returned.root -> <<>>
          [] OTHER -> ws

\* C2 amended: the children of every node N are exactly the candidates of N
\* whose parentId is N.id: for a workspace the fetched workspaces followed by
\* the fetched databases, for a database the fetched rows, each group in the
\* order the record store returned it.
C2_ChildrenByCandidateGroup ==
    returned.op = "get_tree" /\ returned.status = "ok" =>
        \A n \in TreeNodes(returned.include_rows) :
            returned.children[n.id] =
                IdsOf(SelectSeq(Candidates(n, returned.include_rows),
                             LAMBDA o : o.parentId = n.id))

\* get_tree(include_rows=True) has returned a tree in which a workspace has a
\* database child that was listed before a workspace child.
C2_Witness ==
    /\ returned.op = "get_tree"
    /\ returned.status = "ok"
    /\ returned.include_rows
    /\ \E w \in Range(store) :
          /\ w.type = "workspace"
          /\ Len(returned.children[w.id]) = 2
          /\ returned.children[w.id][1] > returned.children[w.id][2]
          /\ store[returned.children[w.id][2]].type = "database"

\* ------------------------------------------------------------------ C3
\* the cell a cardinality-one column may hold: a scalar or None
IsScalarCell(cell) ==
    /\ ~cell.many
    /\ Len(cell.elems) = 1
    /\ cell.elems[1].tag \in {"str", "None"}

\* the database a get_dataframe call was about, and its rows
CalledDatabase == describe_row(returned.database_id)[1]

CalledRows == list_database_rows(returned.database_id)

\* the columns whose name is the key of no other column list
PlainColumns ==
    {c \in Range(CalledDatabase.cols) :
        /\ c.name \notin {"Validation Status", row_id_key(CalledDatabase.hidPrefix)}
        /\ \A o \in Range(CalledDatabase.cols) : o.id # c.id => c.name \notin {o.id, o.name}
        /\ c.name # c.id}

\* C3: after get_dataframe has processed all rows, every column list has
\* exactly len(rows) entries, a cardinality-many cell is a sequence and a
\* cardinality-one cell is a scalar or None, whatever the fields carry.
C3_ColumnsAligned ==
    (returned.op = "get_dataframe" /\ returned.database_id \in DatabaseIds) =>
        /\ returned.status = "ok"
        /\ \A k \in 1..Len(returned.data) :
              Len(returned.data[k].val) = Len(CalledRows)
        /\ \A c \in PlainColumns :
              \A k \in 1..Len(returned.data) :
                 returned.data[k].key = c.name =>
                    \A i \in 1..Len(returned.data[k].val) :
                       IF c.cardinality = "many"
                       THEN returned.data[k].val[i].many
                       ELSE IsScalarCell(returned.data[k].val[i])

\* ------------------------------------------------------------------ C4
\* the option row selects in column c, when it selects exactly one
SelectedOption(row, c) ==
    LET m == matching_values(c, row.fields)
    IN  IF Len(m) = 1 /\ Len(m[1].items) = 1 THEN m[1].items[1] ELSE Null

\* C4: in a table assembled by get_dataframe, every non-null value of a select
\* column of cardinality one is one of configSelect.options, and a selected
\* option that is not among them is not turned into the null of a row
\* without a selection.
C4_OutOfDomainDetectable ==
    (/\ returned.op = "get_dataframe"
     /\ returned.status = "ok"
     /\ returned.return_type = "dataframe") =>
        \A c \in {x \in PlainColumns : x.type = "select" /\ x.cardinality = "one"} :
           \A k \in 1..Len(returned.data) :
              returned.data[k].key = c.name =>
                 \A i \in 1..Len(returned.data[k].val) :
                    LET cell == returned.data[k].val[i]
                        chosen == SelectedOption(CalledRows[i], c)
                    IN  /\ cell # Scalar(None) =>
                              cell.elems[1].items[1] \in Range(c.options)
                        /\ (chosen # Null /\ chosen \notin Range(c.options)) =>
                              cell # Scalar(None)

\* ------------------------------------------------------------------ C5
\* the value lists a table or a mapping holds under a key
ListsUnder(data, key) ==
    {data[k].val : k \in {j \in 1..Len(data) : data[j].key = key}}

\* a table and a mapping with the same keys and, under each key, the same
\* cells
SameCells(table, mapped) ==
    /\ DictKeys(table) = DictKeys(mapped)
    /\ \A key \in DictKeys(table) : ListsUnder(table, key) = ListsUnder(mapped, key)

\* C5: get_dataframe called for a table and then, with the same arguments,
\* for a mapping returns the same keys and the same cells under each key
\* (columns that the table types as categorical aside).
C5_TableEqualsMapping ==
    [][(/\ returned.op = "get_dataframe"
        /\ returned.status = "ok"
        /\ returned.return_type = "dataframe"
        /\ returned'.op = "get_dataframe"
        /\ returned'.status = "ok"
        /\ returned'.return_type = "dict"
        /\ returned'.database_id = returned.database_id
        /\ returned'.use_file_names = returned.use_file_names
        /\ returned'.reference_format = returned.reference_format
        /\ \A c \in Range(CalledDatabase.cols) : c.type # "select")
       => SameCells(returned.data, returned'.data)]_vars

\* ------------------------------------------------------------------ C9
\* some row of database d has several fields of column c
SeveralCells(fields, c) == Len(matching_values(c, fields)) > 1

\* C9: resolving the value of a column for fields that hold more than one
\* field of that column fails, in _parse_column_value and so in get_dataframe.
C9_SeveralCellsRejected ==
    /\ (returned.op = "_parse_column_value"
        /\ SeveralCells(returned.fields, returned.column))
       => returned.status = "error"
    /\ (returned.op = "get_dataframe"
        /\ returned.database_id \in DatabaseIds
        /\ \E row \in Range(CalledRows), c \in Range(CalledDatabase.cols) :
              SeveralCells(row.fields, c))
       => returned.status = "error"

\* ------------------------------------------------------------------ C7
\* the collaborator calls of the last call that are calls of op
CallsOf(op) == SelectSeq(returned.calls, LAMBDA c : c.op = op)

\* C7: when the destination is no existing directory, download and
\* download_database fail before any collaborator is called: no describe_row,
\* list_database_rows, describe_file, convert_id_format or download_file call
\* is made and no file is written.
C7_DestinationCheckedFirst ==
    (returned.op \in {"download", "download_database"} /\ ~isdir) =>
        /\ returned.status = "error"
        /\ returned.calls = <<>>
        /\ returned.written = <<>>

\* download(include_files=True) of a database whose row carries two files has
\* failed on a destination that is no directory.
C7_Witness ==
    /\ ~isdir
    /\ returned.op = "download"
    /\ returned.source \in DatabaseIds
    /\ returned.include_files
    /\ returned.status = "error"
    /\ \E row \in Range(list_database_rows(returned.source)) :
          \E f \in Range(row.fields) : Len(f.value.items) = 2

\* ------------------------------------------------------------------ C8
\* the file ids the rows of database d refer to
ReferencedFiles(d) ==
    UNION {Range(f.value.items) :
              f \in UNION {{x \in Range(row.fields) : x.value.tag = "fileIds"} :
                              row \in Range(list_database_rows(d))}}

\* C8: download_database on a database whose rows refer to k distinct file
\* ids makes, with include_files, exactly one download_file call per distinct
\* file id (k calls) and none without it, and either way writes exactly one
\* CSV, named after the database's human id.
C8_OneDownloadPerFile ==
    (/\ returned.op = "download_database"
     /\ returned.source \in DatabaseIds
     /\ isdir) =>
        /\ returned.status = "ok"
        /\ returned.written = <<describe_row(returned.source)[1].hid>>
        /\ IF returned.include_files
           THEN /\ Len(CallsOf("download_file"))
                      = Cardinality(ReferencedFiles(returned.source))
                /\ {c.arg : c \in Range(CallsOf("download_file"))}
                      = ReferencedFiles(returned.source)
           ELSE CallsOf("download_file") = <<>>

\* ------------------------------------------------------------------ C10
\* the types the id resolves to (none when the service does not know it)
ResolvedTypes(id) == {o.type : o \in Range(describe_row(id))}

\* C10: get_dataframe fails when its id resolves to anything other than a
\* database; get_row_data fails when its id resolves to anything other than a
\* row, or when the row's parent resolves to anything other than a database.
C10_UnexpectedTypeIsFatal ==
    /\ (returned.op = "get_dataframe"
        /\ ResolvedTypes(returned.database_id) # {"database"})
       => returned.status = "error"
    /\ (returned.op = "get_row_data"
        /\ \/ ResolvedTypes(returned.row_id) # {"row"}
           \/ \E o \in Range(describe_row(returned.row_id)) :
                 ResolvedTypes(o.parentId) # {"database"})
       => returned.status = "error"

\* get_row_data has failed on a row whose parent is a workspace, after
\* describing the row and its parent.
C10_Witness ==
    /\ returned.op = "get_row_data"
    /\ returned.status = "error"
    /\ Len(returned.calls) = 2
    /\ ResolvedTypes(returned.row_id) = {"row"}
    /\ \E o \in Range(describe_row(returned.row_id)) :
          ResolvedTypes(o.parentId) = {"workspace"}

\* ------------------------------------------------------------------ C6
\* the table of database d as merge_databases received it
TableOf(d) == get_dataframe(d, TRUE, "human-id", "dataframe")

\* the label the claim gives column k of table t when merged with table o
ClaimedLabel(t, o, k) ==
    IF /\ t.data[k].attrs # <<>>
       /\ t.data[k].attrs[1].referenceDatabaseRowId = o.id
    THEN o.primary_key
    ELSE t.data[k].key

\* row i of the left table, or row j of the right one, is in the result with
\* null in every column that only the other table has
LeftKept(i) ==
    \E p \in 1..Len(returned.pairs) :
        /\ returned.pairs[p][1] = i
        /\ returned.pairs[p][2] = 0 =>
              \A c \in 1..Len(returned.data) :
                 returned.data[c].key \notin Labels(returned.dfs[1]) =>
                    returned.data[c].val[p] = Scalar(None)

RightKept(j) ==
    \E p \in 1..Len(returned.pairs) :
        /\ returned.pairs[p][2] = j
        /\ returned.pairs[p][1] = 0 =>
              \A c \in 1..Len(returned.data) :
                 returned.data[c].key \notin Labels(returned.dfs[2]) =>
                    returned.data[c].val[p] = Scalar(None)

\* C6: merge_databases renames a column exactly when its descriptor's
\* referenceDatabaseRowId is the other table's database id, to the other
\* table's primary key, and returns the full outer join on the identically
\* named columns: every row of either table is in the result, an unmatched
\* one with null in the columns of the other table.
C6_RenameAndOuterJoin ==
    returned.op = "merge_databases" =>
        LET t1 == TableOf(returned.left)
            t2 == TableOf(returned.right)
        IN  /\ returned.status = "ok"
            /\ \A k \in 1..Len(t1.data) :
                  returned.dfs[1][k].key = ClaimedLabel(t1, t2, k)
            /\ \A k \in 1..Len(t2.data) :
                  returned.dfs[2][k].key = ClaimedLabel(t2, t1, k)
            /\ \A i \in 1..NumRows(t1.data) : LeftKept(i)
            /\ \A j \in 1..NumRows(t2.data) : RightKept(j)


\* ------------------------------------------------------------------ C11
\* the fields give column c no value: no field of c, or one field of a
\* select, file or reference column whose list is empty
NoValue(fields, c) ==
    LET m == matching_values(c, fields)
    IN  \/ Len(m) = 0
        \/ /\ Len(m) = 1
           /\ c.type \in {"select", "file", "reference"}
           /\ m[1].items = <<>>

\* a database of one select column of cardinality one and two rows: the
\* first selects option 1 and the second selects nothing
OneThenNone ==
    /\ Len(CalledDatabase.cols) = 1
    /\ CalledDatabase.cols[1].type = "select"
    /\ CalledDatabase.cols[1].cardinality = "one"
    /\ Len(CalledRows) = 2
    /\ SelectedOption(CalledRows[1], CalledDatabase.cols[1]) = 1
    /\ NoValue(CalledRows[2].fields, CalledDatabase.cols[1])

\* C11: the value list _parse_column_value returns has at least one element,
\* and it is [None] when no field matches the column or the one matching
\* select, file or reference field carries an empty list; so get_dataframe
\* assembles the column [1, None] for a cardinality-one select column whose
\* first row selects option 1 and whose second row selects nothing.
C11_AtLeastOneElement ==
    /\ returned.op = "_parse_column_value" =>
          /\ returned.status = "ok"
          /\ Len(returned.value) >= 1
          /\ NoValue(returned.fields, returned.column) => returned.value = <<None>>
    /\ (returned.op = "get_dataframe"
        /\ returned.database_id \in DatabaseIds
        /\ OneThenNone) =>
          /\ returned.status = "ok"
          /\ ListsUnder(returned.data, CalledDatabase.cols[1].name)
                = {<<Scalar(Str(1)), Scalar(None)>>}

\* C11 witness: _parse_column_value has returned [None] for a select column
\* whose one matching field carries an empty list of selected options.
C11_Witness ==
    /\ returned.op = "_parse_column_value"
    /\ returned.column.type = "select"
    /\ Len(matching_values(returned.column, returned.fields)) = 1
    /\ NoValue(returned.fields, returned.column)
    /\ returned.value = <<None>>


\* ------------------------------------------------------------------ C12
\* the row a get_row_data or get_cell_data call was about
CalledRow == describe_row(returned.row_id)[1]

\* the cardinality-one columns of the called row's database for which the row
\* has a field, and whose name is the name of no other column
FilledColumns ==
    LET cols == describe_row(CalledRow.parentId)[1].cols
    IN  {c \in Range(cols) :
            /\ c.cardinality = "one"
            /\ \E f \in Range(CalledRow.fields) : f.columnId = c.id
            /\ \A o \in Range(cols) : o.id # c.id => o.name # c.name}

\* C12: for a row and a cardinality-one column for which the row has a field,
\* get_row_data maps the column's name (or key) to one scalar and
\* get_cell_data returns that scalar, never a list or a structured value,
\* for every column type and also when the field carries an empty list.
C12_CellIsScalar ==
    /\ (returned.op = "get_row_data" /\ ResolvedTypes(returned.row_id) = {"row"}
        /\ ResolvedTypes(CalledRow.parentId) = {"database"}) =>
          \A c \in FilledColumns :
             LET key == IF returned.use_column_keys THEN c.key ELSE c.name
             IN  /\ returned.status = "ok"
                 /\ DictHas(returned.row_data, key)
                 /\ IsScalarCell(DictGet(returned.row_data, key))
    /\ (returned.op = "get_cell_data" /\ ResolvedTypes(returned.row_id) = {"row"}
        /\ ResolvedTypes(CalledRow.parentId) = {"database"}) =>
          \A c \in FilledColumns :
             returned.column_name = c.name =>
                /\ returned.status = "ok"
                /\ IsScalarCell(returned.value)

====
